---- MODULE Spec2Model ----
(***************************************************************************)
(* Model of the Tadu crawler (app.py): safe_get with its retry loop, the   *)
(* catalog discovery, the per-book task pool of crawl_api and the nested   *)
(* per-chapter pool of crawl_first_n_chapters.                             *)
(*                                                                         *)
(* Threads: the request thread running crawl_api, one worker per running   *)
(* crawl_book task, one worker per running crawl_single task.  A task is   *)
(* "queued" after executor.submit while every worker of its pool is busy,  *)
(* "running" from the moment a worker holds it (at submit if the pool is   *)
(* below max_workers, else when a worker ends its previous task and takes  *)
(* the oldest queued one), and "ok" / "exc" once its future holds a result *)
(* / an exception.  The two worker caps are configuration read at pool     *)
(* creation; the model runs every setting from 1 to MaxWorkers, so that    *)
(* task counts below, at and above a cap all occur.                        *)
(* Book ids are modelled as the integers 1..MaxBooks (the code holds them  *)
(* as digit strings; for one-digit ids both orders agree).  The HTML       *)
(* metadata fields of crawl_book_info other than id and url carry no       *)
(* control flow and are left out of the info record.                       *)
(***************************************************************************)
EXTENDS Integers, Sequences, FiniteSets, TLC

\* ---------------------------------------------------------------- bounds
MaxBooks == 2
MaxChapters == 2
MaxRetries == 3
MaxWorkers == 2

\* ------------------------------------------------------ program constants
\* safe_get(..., retries=2, ...): the default every caller relies on.
DEFAULT_RETRIES == 2

BookIds == 1..MaxBooks
ChapterArgs == (0 - 1)..MaxChapters
ChapterIdx == 1..MaxChapters
Pages == {1}

\* Outcome of one requests.get + raise_for_status round trip.
Outcomes == {"ok", "conn", "timeout", "http"}
\* JSON envelopes the content API can answer with.
JsonDocs == {"ok", "badstatus", "nodata"}

None == [kind |-> "None"]

VARIABLES
    MAX_WORKERS_BOOKS,    \* max_workers of the pool in crawl_api
    MAX_WORKERS_CHAPTERS, \* max_workers of each pool in crawl_first_n_chapters
    pc,           \* request thread: idle, discovering, fetching, joining, done
    page_num,     \* request.args page
    num_chapters, \* request.args num_chapters
    book_ids,     \* sorted sequence returned by get_book_ids
    results,      \* results list of crawl_api
    pending,      \* exception the request thread carries through the with-exit
    response,     \* what crawl_api hands to Flask
    bstate,       \* per book: none, queued, running, collect, join, ok, exc
    bres,         \* per book: value held by the crawl_book future
    bdrained,     \* books whose future the as_completed loop has yielded
    info,         \* per book: local info of crawl_book
    bpending,     \* per book: exception carried through the chapter with-exit
    chapters,     \* per book: chapters list of crawl_first_n_chapters
    cstate,       \* per book, chapter: none, queued, running, ok, exc
    cres,         \* per book, chapter: value held by the crawl_single future
    cdrained,     \* per book: chapter futures yielded by as_completed
    cfail,        \* per book, chapter: which fetch of crawl_single failed, how
    issued,       \* urls for which at least one GET went out
    f_pc,         \* safe_get harness: ready, called
    f_url,        \* safe_get harness: url argument
    f_retries,    \* safe_get harness: retries argument
    f_outs,       \* safe_get harness: outcome of each successive GET
    f_result      \* safe_get harness: what the call produced

vars == <<MAX_WORKERS_BOOKS, MAX_WORKERS_CHAPTERS, pc, page_num, num_chapters, book_ids, results, pending, response,
          bstate, bres, bdrained, info, bpending, chapters, cstate, cres,
          cdrained, cfail, issued, f_pc, f_url, f_retries, f_outs, f_result>>

mainVars == <<pc, page_num, num_chapters, book_ids, results, pending, response>>
bookVars == <<bstate, bres, bdrained, info, bpending>>
chapVars == <<chapters, cstate, cres, cdrained, cfail>>
fetchVars == <<f_pc, f_url, f_retries, f_outs, f_result>>
capVars == <<MAX_WORKERS_BOOKS, MAX_WORKERS_CHAPTERS>>

\* ------------------------------------------------------------- safe_get
StoreUrl(page) == <<"store", page>>
BookUrl(b) == <<"book", b>>
TitleUrl(b, i) == <<"title", b, i>>
ContentUrl(b, i) == <<"content", b, i>>

Response(url) == [kind |-> "Response", url |-> url]

\* raise Exception(f"Không thể truy cập {url} sau {retries} lần")
FetchError(url, retries) ==
    [kind |-> "Exception", url |-> url, retries |-> retries]

RECURSIVE safe_get_from_nosleep(_, _, _, _, _)
\* safe_get_from without the time.sleep of the except branch.
safe_get_from_nosleep(url, retries, outs, attempt, trace) ==
    IF attempt >= retries
    THEN [raised |-> TRUE, value |-> FetchError(url, retries), trace |-> trace]
    ELSE IF outs[attempt + 1] = "ok"
    THEN [raised |-> FALSE, value |-> Response(url),
          trace |-> Append(trace, "get")]
    ELSE safe_get_from_nosleep(url, retries, outs, attempt + 1,
                               Append(trace, "get"))

RECURSIVE safe_get_from_extra(_, _, _, _, _)
\* safe_get_from looping over range(retries + 1).
safe_get_from_extra(url, retries, outs, attempt, trace) ==
    IF attempt > retries
    THEN [raised |-> TRUE, value |-> FetchError(url, retries), trace |-> trace]
    ELSE IF outs[attempt + 1] = "ok"
    THEN [raised |-> FALSE, value |-> Response(url),
          trace |-> Append(trace, "get")]
    ELSE safe_get_from_extra(url, retries, outs, attempt + 1,
                             trace \o <<"get", "sleep">>)

RECURSIVE safe_get_from(_, _, _, _, _)
\* The loop `for attempt in range(retries)` from iteration `attempt` on;
\* trace lists the GETs and sleeps performed so far.
safe_get_from(url, retries, outs, attempt, trace) ==
    IF attempt >= retries
    THEN [raised |-> TRUE, value |-> FetchError(url, retries), trace |-> trace]
    ELSE IF outs[attempt + 1] = "ok"
    THEN [raised |-> FALSE, value |-> Response(url),
          trace |-> Append(trace, "get")]
    ELSE safe_get_from(url, retries, outs, attempt + 1,
                       trace \o <<"get", "sleep">>)

\* safe_get whose loop body runs once before the attempt count is tested.
safe_get_atleastonce(url, retries, outs) ==
    safe_get_from(url, IF retries < 1 THEN 1 ELSE retries, outs, 0, <<>>)

safe_get(url, retries, outs) == safe_get_from(url, retries, outs, 0, <<>>)

Count(seq, x) == Cardinality({k \in DOMAIN seq : seq[k] = x})

\* The outcomes the network can give to the GETs of one default call; which
\* exception a failed GET raised is not told apart by `except Exception`.
NetOuts == [1..DEFAULT_RETRIES -> {"ok", "timeout"}]

Sent(r) == IF Count(r.trace, "get") > 0 THEN {r.value.url} ELSE {}

\* ------------------------------------------------------------ extraction
\* sorted(ids): the ids in ascending order.
sorted(S) ==
    CHOOSE s \in [1..Cardinality(S) -> S] :
        \A i, j \in 1..Cardinality(S) : i < j => s[i] < s[j]

\* Number of <h4> tags the site serves on the reader page of a chapter.
H4Tags(b, i) == (b + i) % 3

\* get_book_ids with the fetch wrapped in a try/except that returns [].
get_book_ids_swallow(page, outs, ids) ==
    LET r == safe_get(StoreUrl(page), DEFAULT_RETRIES, outs)
    IN  IF r.raised
        THEN [raised |-> FALSE, value |-> <<>>, sent |-> Sent(r)]
        ELSE [raised |-> FALSE, value |-> sorted(ids), sent |-> Sent(r)]

\* get_book_ids: the catalog fetch; ids is what the page's anchors hold.
get_book_ids(page, outs, ids) ==
    LET r == safe_get(StoreUrl(page), DEFAULT_RETRIES, outs)
    IN  IF r.raised
        THEN [raised |-> TRUE, value |-> r.value, sent |-> Sent(r)]
        ELSE [raised |-> FALSE, value |-> sorted(ids), sent |-> Sent(r)]

\* crawl_book_info: the metadata fetch; a failed safe_get propagates.
crawl_book_info(b, outs) ==
    LET r == safe_get(BookUrl(b), DEFAULT_RETRIES, outs)
    IN  IF r.raised
        THEN [raised |-> TRUE, value |-> r.value, sent |-> Sent(r)]
        ELSE [raised |-> FALSE, value |-> [id |-> b, url |-> BookUrl(b)],
              sent |-> Sent(r)]

\* crawl_chapter_title: no try/except around safe_get.
crawl_chapter_title(b, i, outs) ==
    LET r == safe_get(TitleUrl(b, i), DEFAULT_RETRIES, outs)
        h == H4Tags(b, i)
    IN  IF r.raised
        THEN [raised |-> TRUE, value |-> r.value, sent |-> Sent(r)]
        ELSE [raised |-> FALSE,
              value |-> IF h >= 2 THEN <<"h4", 2>>
                        ELSE IF h >= 1 THEN <<"h4", 1>>
                        ELSE <<"Chuong", i>>,
              sent |-> Sent(r)]

\* crawl_chapter_content with safe_get called outside the try.
crawl_chapter_content_unguarded(b, i, outs, doc) ==
    LET r == safe_get(ContentUrl(b, i), DEFAULT_RETRIES, outs)
    IN  IF r.raised
        THEN [raised |-> TRUE, value |-> r.value, how |-> "http", sent |-> Sent(r)]
        ELSE IF doc = "badstatus"
        THEN [raised |-> FALSE, value |-> "", how |-> "status", sent |-> Sent(r)]
        ELSE IF doc = "nodata"
        THEN [raised |-> FALSE, value |-> "", how |-> "missing", sent |-> Sent(r)]
        ELSE [raised |-> FALSE, value |-> "text", how |-> "none", sent |-> Sent(r)]

\* crawl_chapter_content: every exception inside the try yields "".
crawl_chapter_content(b, i, outs, doc) ==
    LET r == safe_get(ContentUrl(b, i), DEFAULT_RETRIES, outs)
    IN  IF r.raised
        THEN [raised |-> FALSE, value |-> "", how |-> "http", sent |-> Sent(r)]
        ELSE IF doc = "badstatus"
        THEN [raised |-> FALSE, value |-> "", how |-> "status", sent |-> Sent(r)]
        ELSE IF doc = "nodata"
        THEN [raised |-> FALSE, value |-> "", how |-> "missing", sent |-> Sent(r)]
        ELSE [raised |-> FALSE, value |-> "text", how |-> "none", sent |-> Sent(r)]

\* crawl_single: title first, then content, then the chapter dict.
crawl_single(b, i, outsT, outsC, doc) ==
    LET t == crawl_chapter_title(b, i, outsT)
        c == crawl_chapter_content(b, i, outsC, doc)
    IN  IF t.raised
        THEN [raised |-> TRUE, value |-> t.value, how |-> "title",
              sent |-> t.sent]
        ELSE IF c.raised
        THEN [raised |-> TRUE, value |-> c.value, how |-> c.how,
              sent |-> t.sent \cup c.sent]
        ELSE [raised |-> FALSE,
              value |-> [index |-> i, title |-> t.value, content |-> c.value],
              how |-> c.how, sent |-> t.sent \cup c.sent]

RECURSIVE sort_by_index(_)
\* chapters.sort(key=lambda x: x["index"]): a stable insertion of the last
\* element into the sorted rest.
sort_by_index(seq) ==
    IF Len(seq) <= 1 THEN seq
    ELSE LET rest == sort_by_index(SubSeq(seq, 1, Len(seq) - 1))
             x == seq[Len(seq)]
             lo == SelectSeq(rest, LAMBDA y : y.index <= x.index)
             hi == SelectSeq(rest, LAMBDA y : y.index > x.index)
         IN  lo \o <<x>> \o hi

\* ------------------------------------------------------------------ pools
Finished == {"ok", "exc"}
BookActive == {"running", "collect", "join"}
BookRunning == {b \in BookIds : bstate[b] \in BookActive}
ChapterRunning(b) == {i \in ChapterIdx : cstate[b][i] = "running"}
InFlightAll == {<<b, i>> \in BookIds \X ChapterIdx : cstate[b][i] = "running"}

\* book_workers of a pool that starts a thread per submitted task.
book_workers_uncapped(st) ==
    [b \in BookIds |-> IF st[b] = "queued" THEN "running" ELSE st[b]]

\* book_workers whose worker thread dies with the exception of its task.
book_workers_dying(st) ==
    [b \in BookIds |->
        IF /\ st[b] = "queued"
           /\ Cardinality({c \in BookIds : st[c] \in BookActive \cup {"exc"}})
                + Cardinality({c \in BookIds : c <= b /\ st[c] = "queued"})
                    <= MAX_WORKERS_BOOKS
        THEN "running" ELSE st[b]]

\* chapter_workers of a crawl_first_n_chapters that submits crawl_single to
\* the book pool of crawl_api, whose workers the crawl_book tasks hold.
chapter_workers_shared(st) ==
    [i \in ChapterIdx |->
        IF /\ st[i] = "queued"
           /\ Cardinality(BookRunning) + Cardinality(InFlightAll)
                + Cardinality({j \in ChapterIdx : j <= i /\ st[j] = "queued"})
                    <= MAX_WORKERS_BOOKS
        THEN "running" ELSE st[i]]

\* The book pool's workers: each free worker takes the oldest queued task,
\* as long as fewer than MAX_WORKERS_BOOKS tasks are held.
book_workers(st) ==
    [b \in BookIds |->
        IF /\ st[b] = "queued"
           /\ Cardinality({c \in BookIds : st[c] \in BookActive})
                + Cardinality({c \in BookIds : c <= b /\ st[c] = "queued"})
                    <= MAX_WORKERS_BOOKS
        THEN "running" ELSE st[b]]

\* The same for the chapter pool of one book.
chapter_workers(st) ==
    [i \in ChapterIdx |->
        IF /\ st[i] = "queued"
           /\ Cardinality({j \in ChapterIdx : st[j] = "running"})
                + Cardinality({j \in ChapterIdx : j <= i /\ st[j] = "queued"})
                    <= MAX_WORKERS_CHAPTERS
        THEN "running" ELSE st[i]]
Submitted(b) == {i \in ChapterIdx : cstate[b][i] # "none"}
InIds == {book_ids[k] : k \in DOMAIN book_ids}

\* --------------------------------------------------------------- initial
Init ==
    /\ MAX_WORKERS_BOOKS \in 1..MaxWorkers
    /\ MAX_WORKERS_CHAPTERS \in 1..MaxWorkers
    /\ pc = "idle"
    /\ page_num = 0
    /\ num_chapters = 0
    /\ book_ids = <<>>
    /\ results = <<>>
    /\ pending = None
    /\ response = None
    /\ bstate = [b \in BookIds |-> "none"]
    /\ bres = [b \in BookIds |-> None]
    /\ bdrained = {}
    /\ info = [b \in BookIds |-> None]
    /\ bpending = [b \in BookIds |-> None]
    /\ chapters = [b \in BookIds |-> <<>>]
    /\ cstate = [b \in BookIds |-> [i \in ChapterIdx |-> "none"]]
    /\ cres = [b \in BookIds |-> [i \in ChapterIdx |-> None]]
    /\ cdrained = [b \in BookIds |-> {}]
    /\ cfail = [b \in BookIds |-> [i \in ChapterIdx |-> "notrun"]]
    /\ issued = {}
    /\ f_pc = "off"
    /\ f_url = None
    /\ f_retries = 0
    /\ f_outs = <<>>
    /\ f_result = None

\* ------------------------------------------------------- request thread
\* crawl_api reads its two arguments.
Start(p, n) ==
    /\ pc = "idle"
    /\ pc' = "discovering"
    /\ page_num' = p
    /\ num_chapters' = n
    /\ UNCHANGED <<book_ids, results, pending, response>>
    /\ UNCHANGED <<bookVars, chapVars, issued, fetchVars, capVars>>

\* Discover without the `if not book_ids` return: an empty list goes on to
\* the pool, whose as_completed loop ends at once.
Discover_nocheck(outs, ids) ==
    /\ pc = "discovering"
    /\ LET g == get_book_ids(page_num, outs, ids)
       IN  /\ issued' = issued \cup g.sent
           /\ IF g.raised
              THEN /\ pc' = "done"
                   /\ response' = [kind |-> "raised", error |-> g.value]
                   /\ UNCHANGED <<book_ids, bstate>>
              ELSE /\ pc' = IF g.value = <<>> THEN "joining" ELSE "fetching"
                   /\ book_ids' = g.value
                   /\ bstate' = book_workers(
                                   [b \in BookIds |->
                                      IF b \in ids THEN "queued" ELSE "none"])
                   /\ UNCHANGED response
    /\ UNCHANGED <<page_num, num_chapters, results, pending>>
    /\ UNCHANGED <<bres, bdrained, info, bpending, chapVars, fetchVars,
                   capVars>>

\* book_ids = get_book_ids(page_num); the 404 return; the submit of one
\* crawl_book per id.
Discover(outs, ids) ==
    /\ pc = "discovering"
    /\ LET g == get_book_ids(page_num, outs, ids)
       IN  /\ issued' = issued \cup g.sent
           /\ IF g.raised
              THEN /\ pc' = "done"
                   /\ response' = [kind |-> "raised", error |-> g.value]
                   /\ UNCHANGED <<book_ids, bstate>>
              ELSE IF g.value = <<>>
              THEN /\ pc' = "done"
                   /\ book_ids' = g.value
                   /\ response' = [kind |-> "notfound", status |-> 404]
                   /\ UNCHANGED bstate
              ELSE /\ pc' = "fetching"
                   /\ book_ids' = g.value
                   /\ bstate' = book_workers(
                                   [b \in BookIds |->
                                      IF b \in ids THEN "queued" ELSE "none"])
                   /\ UNCHANGED response
    /\ UNCHANGED <<page_num, num_chapters, results, pending>>
    /\ UNCHANGED <<bres, bdrained, info, bpending, chapVars, fetchVars,
                   capVars>>

\* One turn of `for f in as_completed(futures): results.append(f.result())`.
MainCollect(b) ==
    /\ pc = "fetching"
    /\ b \in InIds
    /\ b \notin bdrained
    /\ bstate[b] \in Finished
    /\ bdrained' = bdrained \cup {b}
    /\ IF bstate[b] = "exc"
       THEN /\ pending' = bres[b]
            /\ pc' = "joining"
            /\ UNCHANGED results
       ELSE /\ results' = Append(results, bres[b])
            /\ pc' = IF bdrained' = InIds THEN "joining" ELSE "fetching"
            /\ UNCHANGED pending
    /\ UNCHANGED <<page_num, num_chapters, book_ids, response>>
    /\ UNCHANGED <<bstate, bres, info, bpending, chapVars, issued, fetchVars,
                   capVars>>

\* MainJoin of a pool shut down with wait=False.
MainJoin_nowait ==
    /\ pc = "joining"
    /\ pc' = "done"
    /\ response' = IF pending # None
                   THEN [kind |-> "raised", error |-> pending]
                   ELSE [kind |-> "ok", status |-> 200, results |-> results]
    /\ UNCHANGED <<page_num, num_chapters, book_ids, results, pending>>
    /\ UNCHANGED <<bookVars, chapVars, issued, fetchVars, capVars>>

\* Leaving the with block: executor.shutdown(wait=True), then the return or
\* the propagation of the pending exception.
MainJoin ==
    /\ pc = "joining"
    /\ \A b \in InIds : bstate[b] \in Finished
    /\ pc' = "done"
    /\ response' = IF pending # None
                   THEN [kind |-> "raised", error |-> pending]
                   ELSE [kind |-> "ok", status |-> 200, results |-> results]
    /\ UNCHANGED <<page_num, num_chapters, book_ids, results, pending>>
    /\ UNCHANGED <<bookVars, chapVars, issued, fetchVars, capVars>>

\* ----------------------------------------------------------- book tasks
\* crawl_book up to the as_completed loop of crawl_first_n_chapters:
\* crawl_book_info, chapters = [], the submit of crawl_single for 1..n.
BookInfo(b, outs) ==
    /\ bstate[b] = "running"
    /\ LET r == crawl_book_info(b, outs)
       IN  /\ issued' = issued \cup r.sent
           /\ IF r.raised
              THEN /\ bstate' = book_workers([bstate EXCEPT ![b] = "exc"])
                   /\ bres' = [bres EXCEPT ![b] = r.value]
                   /\ UNCHANGED <<info, chapters, cstate>>
              ELSE /\ info' = [info EXCEPT ![b] = r.value]
                   /\ chapters' = [chapters EXCEPT ![b] = <<>>]
                   /\ cstate' = [cstate EXCEPT ![b] = chapter_workers(
                                   [i \in ChapterIdx |->
                                      IF i <= num_chapters THEN "queued"
                                      ELSE "none"])]
                   /\ bstate' = [bstate EXCEPT ![b] =
                                   IF num_chapters >= 1 THEN "collect"
                                   ELSE "join"]
                   /\ UNCHANGED bres
    /\ UNCHANGED <<mainVars, bdrained, bpending, cres, cdrained, cfail,
                   fetchVars, capVars>>

\* One turn of `for f in as_completed(futures)` in crawl_first_n_chapters.
ChapterCollect(b, i) ==
    /\ bstate[b] = "collect"
    /\ i \notin cdrained[b]
    /\ cstate[b][i] \in Finished
    /\ cdrained' = [cdrained EXCEPT ![b] = @ \cup {i}]
    /\ IF cstate[b][i] = "exc"
       THEN /\ bpending' = [bpending EXCEPT ![b] = cres[b][i]]
            /\ bstate' = [bstate EXCEPT ![b] = "join"]
            /\ UNCHANGED chapters
       ELSE /\ chapters' = [chapters EXCEPT ![b] = Append(@, cres[b][i])]
            /\ bstate' = [bstate EXCEPT ![b] =
                            IF cdrained'[b] = Submitted(b) THEN "join"
                            ELSE "collect"]
            /\ UNCHANGED bpending
    /\ UNCHANGED <<mainVars, bres, bdrained, info, cstate, cres, cfail,
                   issued, fetchVars, capVars>>

\* Leaving the with block of crawl_first_n_chapters, the sort, the return
\* into crawl_book and its return; or the exception leaving crawl_book.
\* The locals of both frames end with them.
ChapterJoin(b) ==
    /\ bstate[b] = "join"
    /\ \A i \in Submitted(b) : cstate[b][i] \in Finished
    /\ IF bpending[b] # None
       THEN /\ bstate' = book_workers([bstate EXCEPT ![b] = "exc"])
            /\ bres' = [bres EXCEPT ![b] = bpending[b]]
       ELSE /\ bstate' = book_workers([bstate EXCEPT ![b] = "ok"])
            /\ bres' = [bres EXCEPT ![b] =
                          [id |-> info[b].id, url |-> info[b].url,
                           chapters |-> sort_by_index(chapters[b])]]
    /\ chapters' = [chapters EXCEPT ![b] = <<>>]
    /\ cdrained' = [cdrained EXCEPT ![b] = {}]
    /\ info' = [info EXCEPT ![b] = None]
    /\ bpending' = [bpending EXCEPT ![b] = None]
    /\ UNCHANGED <<mainVars, bdrained, cstate, cres, cfail, issued, fetchVars,
                   capVars>>

\* -------------------------------------------------------- chapter tasks
\* ChapterRun of a crawl_single that appends its chapter to the chapters list
\* of crawl_first_n_chapters from the worker thread.
ChapterRun_appending(b, i, outsT, outsC, doc) ==
    /\ cstate[b][i] = "running"
    /\ LET r == crawl_single(b, i, outsT, outsC, doc)
       IN  /\ cstate' = [cstate EXCEPT ![b] = chapter_workers(
                           [@ EXCEPT ![i] = IF r.raised THEN "exc" ELSE "ok"])]
           /\ cres' = [cres EXCEPT ![b][i] = r.value]
           /\ cfail' = [cfail EXCEPT ![b][i] = r.how]
           /\ issued' = issued \cup r.sent
           /\ chapters' = IF r.raised THEN chapters
                          ELSE [chapters EXCEPT ![b] = Append(@, r.value)]
    /\ UNCHANGED <<mainVars, bookVars, cdrained, fetchVars, capVars>>

\* crawl_single(i) run by its worker, which then takes the next queued task.
ChapterRun(b, i, outsT, outsC, doc) ==
    /\ cstate[b][i] = "running"
    /\ LET r == crawl_single(b, i, outsT, outsC, doc)
       IN  /\ cstate' = [cstate EXCEPT ![b] = chapter_workers(
                           [@ EXCEPT ![i] = IF r.raised THEN "exc" ELSE "ok"])]
           /\ cres' = [cres EXCEPT ![b][i] = r.value]
           /\ cfail' = [cfail EXCEPT ![b][i] = r.how]
           /\ issued' = issued \cup r.sent
    /\ UNCHANGED <<mainVars, bookVars, chapters, cdrained, fetchVars,
                   capVars>>

Next ==
    \/ \E p \in Pages, n \in ChapterArgs : Start(p, n)
    \/ \E outs \in NetOuts, ids \in SUBSET BookIds : Discover(outs, ids)
    \/ \E b \in BookIds : MainCollect(b)
    \/ MainJoin
    \/ \E b \in BookIds, outs \in NetOuts : BookInfo(b, outs)
    \/ \E b \in BookIds, i \in ChapterIdx : ChapterCollect(b, i)
    \/ \E b \in BookIds : ChapterJoin(b)
    \/ \E b \in BookIds, i \in ChapterIdx, outsT \in NetOuts,
          outsC \in NetOuts, doc \in JsonDocs :
            ChapterRun(b, i, outsT, outsC, doc)

Spec == Init /\ [][Next]_vars

\* Every thread that can take a step is scheduled in the end and every GET
\* ends (timeout=15): a run does not stop while a step is possible.
FairSpec == Spec /\ WF_vars(Next)

\* ------------------------------------- catalog pages with at most one id
\* The whole of crawl_api against catalog pages that hold no id or one.
FewIds == {ids \in SUBSET BookIds : Cardinality(ids) <= 1}

NextFew ==
    \/ \E p \in Pages, n \in ChapterArgs : Start(p, n)
    \/ \E outs \in NetOuts, ids \in FewIds : Discover(outs, ids)
    \/ \E b \in BookIds : MainCollect(b)
    \/ MainJoin
    \/ \E b \in BookIds, outs \in NetOuts : BookInfo(b, outs)
    \/ \E b \in BookIds, i \in ChapterIdx : ChapterCollect(b, i)
    \/ \E b \in BookIds : ChapterJoin(b)
    \/ \E b \in BookIds, i \in ChapterIdx, outsT \in NetOuts,
          outsC \in NetOuts, doc \in JsonDocs :
            ChapterRun(b, i, outsT, outsC, doc)

SpecFew == Init /\ [][NextFew]_vars

\* ------------------------------------------------- one book on its own
\* crawl_api right after get_book_ids returned the single id b and the
\* pool took its crawl_book task: the runs of one item with its fan-out.
InitOne ==
    /\ MAX_WORKERS_BOOKS = MaxWorkers
    /\ MAX_WORKERS_CHAPTERS \in 1..MaxWorkers
    /\ pc = "fetching"
    /\ page_num \in Pages
    /\ num_chapters \in ChapterArgs
    /\ \E b \in BookIds :
          /\ book_ids = <<b>>
          /\ bstate = [c \in BookIds |-> IF c = b THEN "running" ELSE "none"]
    /\ results = <<>>
    /\ pending = None
    /\ response = None
    /\ bres = [b \in BookIds |-> None]
    /\ bdrained = {}
    /\ info = [b \in BookIds |-> None]
    /\ bpending = [b \in BookIds |-> None]
    /\ chapters = [b \in BookIds |-> <<>>]
    /\ cstate = [b \in BookIds |-> [i \in ChapterIdx |-> "none"]]
    /\ cres = [b \in BookIds |-> [i \in ChapterIdx |-> None]]
    /\ cdrained = [b \in BookIds |-> {}]
    /\ cfail = [b \in BookIds |-> [i \in ChapterIdx |-> "notrun"]]
    /\ issued = {StoreUrl(page_num)}
    /\ f_pc = "off"
    /\ f_url = None
    /\ f_retries = 0
    /\ f_outs = <<>>
    /\ f_result = None

NextOne ==
    \/ \E b \in BookIds : MainCollect(b)
    \/ MainJoin
    \/ \E b \in BookIds, outs \in NetOuts : BookInfo(b, outs)
    \/ \E b \in BookIds, i \in ChapterIdx : ChapterCollect(b, i)
    \/ \E b \in BookIds : ChapterJoin(b)
    \/ \E b \in BookIds, i \in ChapterIdx, outsT \in NetOuts,
          outsC \in NetOuts, doc \in JsonDocs :
            ChapterRun(b, i, outsT, outsC, doc)

SpecOne == InitOne /\ [][NextOne]_vars

\* --------------------------------------------------- safe_get on its own
FetchUrls == {StoreUrl(1), BookUrl(1)}
RetriesArgs == (0 - 1)..MaxRetries

InitFetch ==
    /\ MAX_WORKERS_BOOKS = MaxWorkers
    /\ MAX_WORKERS_CHAPTERS = MaxWorkers
    /\ pc = "idle"
    /\ page_num = 0
    /\ num_chapters = 0
    /\ book_ids = <<>>
    /\ results = <<>>
    /\ pending = None
    /\ response = None
    /\ bstate = [b \in BookIds |-> "none"]
    /\ bres = [b \in BookIds |-> None]
    /\ bdrained = {}
    /\ info = [b \in BookIds |-> None]
    /\ bpending = [b \in BookIds |-> None]
    /\ chapters = [b \in BookIds |-> <<>>]
    /\ cstate = [b \in BookIds |-> [i \in ChapterIdx |-> "none"]]
    /\ cres = [b \in BookIds |-> [i \in ChapterIdx |-> None]]
    /\ cdrained = [b \in BookIds |-> {}]
    /\ cfail = [b \in BookIds |-> [i \in ChapterIdx |-> "notrun"]]
    /\ issued = {}
    /\ f_pc = "ready"
    /\ f_url \in FetchUrls
    /\ f_retries \in RetriesArgs
    /\ f_outs \in [1..(MaxRetries + 1) -> Outcomes]
    /\ f_result = None

\* One call safe_get(f_url, retries=f_retries) against a network that
\* answers the successive GETs with f_outs.
FetchCall ==
    /\ f_pc = "ready"
    /\ f_pc' = "called"
    /\ f_result' = safe_get(f_url, f_retries, f_outs)
    /\ UNCHANGED <<f_url, f_retries, f_outs>>
    /\ UNCHANGED <<mainVars, bookVars, chapVars, issued, capVars>>

NextFetch == FetchCall

SpecFetch == InitFetch /\ [][NextFetch]_vars

\* ================================================================ claims
ContentFailures == {"http", "status", "missing"}

\* The metadata fetch of b exhausted its retries.
MetaFailed(b) ==
    bstate[b] = "exc" /\ bres[b] = FetchError(BookUrl(b), DEFAULT_RETRIES)
\* The metadata fetch of b returned a page.
MetaOk(b) == bstate[b] \in {"collect", "join", "ok", "exc"} /\ ~MetaFailed(b)

Reports == IF "results" \in DOMAIN response THEN response.results ELSE <<>>
Errors == IF "errors" \in DOMAIN response THEN response.errors ELSE <<>>
ReportsOf(b) == {k \in DOMAIN Reports : Reports[k].id = b}
ErrorsOf(b) == {k \in DOMAIN Errors : Errors[k].id = b}
Wanted == IF num_chapters < 0 THEN 0 ELSE num_chapters

\* C1: when the item fan-out has ended, reports plus errors number as many
\* as the discovered ids, and every id has exactly one entry.
C1_AllIdsAccounted ==
    (pc = "done" /\ book_ids # <<>>) =>
        /\ Len(Reports) + Len(Errors) = Len(book_ids)
        /\ \A b \in InIds :
              Cardinality(ReportsOf(b)) + Cardinality(ErrorsOf(b)) = 1

\* C2: at the end of a run every item whose own metadata fetch succeeded
\* has its report in the final result, whatever happened to other items.
C2_SiblingReportKept ==
    pc = "done" => \A b \in InIds : MetaOk(b) => ReportsOf(b) # {}

\* C3: for n >= 0, once crawl_first_n_chapters has ended it has returned
\* exactly n chapters with index 1, 2, ..., n in that order.
C3_ChaptersOneToN ==
    \A b \in BookIds :
        (num_chapters >= 0 /\ MetaOk(b) /\ bstate[b] \in Finished) =>
            /\ bstate[b] = "ok"
            /\ Len(bres[b].chapters) = num_chapters
            /\ \A k \in 1..num_chapters : bres[b].chapters[k].index = k

\* C4: an item whose metadata fetch exhausted its retries gets an ItemError
\* with its id in the result, and no title or content GET goes out for it.
C4_MetaFailureIsItemError ==
    \A b \in BookIds :
        MetaFailed(b) =>
            /\ \A i \in ChapterIdx :
                  TitleUrl(b, i) \notin issued /\ ContentUrl(b, i) \notin issued
            /\ pc = "done" => ErrorsOf(b) # {}

\* C5: a chapter whose title fetch exhausted its retries is still produced,
\* with the default title, and its fan-out returns all its chapters.
C5_TitleFailureDegrades ==
    \A b \in BookIds, i \in ChapterIdx :
        cfail[b][i] = "title" =>
            /\ cstate[b][i] = "ok"
            /\ cres[b][i].title = <<"Chuong", i>>
            /\ bstate[b] \in Finished =>
                  bstate[b] = "ok" /\ Len(bres[b].chapters) = Wanted

\* C6: a chapter whose content fetch failed (retries exhausted, status other
\* than 200, nested field missing) ends its task with a result, not an
\* exception; the result has content "", the chapter's index and its title;
\* once drained it is in the chapters list, and it is in the list the
\* fan-out returns.
C6_ContentFailureIsEmpty ==
    \A b \in BookIds, i \in ChapterIdx :
        cfail[b][i] \in ContentFailures =>
            /\ cstate[b][i] = "ok"
            /\ cres[b][i] =
                  [index |-> i,
                   title |-> crawl_chapter_title(b, i, <<"ok", "ok">>).value,
                   content |-> ""]
            /\ i \in cdrained[b] =>
                  \E k \in DOMAIN chapters[b] : chapters[b][k] = cres[b][i]
            /\ bstate[b] = "ok" =>
                  /\ i \in DOMAIN bres[b].chapters
                  /\ bres[b].chapters[i] = cres[b][i]

\* Two chapters of one book failed their content fetch in different ways,
\* after a non-200 status and on a missing field, and the response carries
\* both, each with content "".
C6_Witness ==
    /\ pc = "done"
    /\ response.kind = "ok"
    /\ \E b \in BookIds, i, j \in ChapterIdx :
          /\ cfail[b][i] = "status"
          /\ cfail[b][j] = "missing"
          /\ \E k \in DOMAIN response.results :
                /\ response.results[k].id = b
                /\ response.results[k].chapters[i].index = i
                /\ response.results[k].chapters[i].content = ""
                /\ response.results[k].chapters[j].index = j
                /\ response.results[k].chapters[j].content = ""

\* C7: an item whose metadata fetch succeeded ends its task with one report
\* holding its n chapters, also when title or content fetches of its own
\* chapters fail; a returned response holds that report exactly once.
C7_MetaOkGivesReport ==
    \A b \in BookIds :
        (MetaOk(b) /\ bstate[b] \in Finished) =>
            /\ bstate[b] = "ok"
            /\ bres[b].id = b
            /\ Len(bres[b].chapters) = Wanted
            /\ (pc = "done" /\ response.kind = "ok") =>
                  Cardinality(ReportsOf(b)) = 1

\* C8: whatever item-level and chapter-level fetches fail, a crawl_api that
\* discovered ids ends by returning its results, never with an exception.
C8_NeverRaises ==
    (pc = "done" /\ book_ids # <<>>) => response.kind = "ok"

\* ---------------------------------------------------- safe_get's claims
Gets == Count(f_result.trace, "get")
Sleeps == Count(f_result.trace, "sleep")

\* Number of failed GETs the network gives before its first success.
FailsBeforeOk(outs) ==
    CHOOSE k \in 0..Len(outs) :
        /\ \A j \in 1..k : outs[j] # "ok"
        /\ k < Len(outs) => outs[k + 1] = "ok"

\* C9: with maxAttempts = m and an endpoint failing k < m times and then
\* succeeding, safe_get returns the response after exactly k + 1 GETs and
\* exactly k sleeps.
C9_RetryThenSuccess ==
    (f_pc = "called" /\ FailsBeforeOk(f_outs) < f_retries) =>
        /\ ~f_result.raised
        /\ f_result.value = Response(f_url)
        /\ Gets = FailsBeforeOk(f_outs) + 1
        /\ Sleeps = FailsBeforeOk(f_outs)

\* m = 3, k = 2: success with exactly 2 sleeps.
C9_Witness ==
    /\ f_pc = "called"
    /\ f_retries = 3
    /\ FailsBeforeOk(f_outs) = 2
    /\ ~f_result.raised
    /\ Sleeps = 2

AllFailed == \A j \in 1..f_retries : f_outs[j] # "ok"

\* C10 as stated: at most maxAttempts GETs; an error exactly when all
\* maxAttempts GETs failed; the error carries the url and the cause of the
\* last failed GET.
C10_ErrorCarriesCause ==
    (f_pc = "called" /\ f_retries >= 1) =>
        /\ Gets <= f_retries
        /\ f_result.raised <=> AllFailed
        /\ f_result.raised =>
              /\ f_result.value.url = f_url
              /\ "cause" \in DOMAIN f_result.value
              /\ f_result.value.cause = f_outs[f_retries]

\* C10 amended: at most maxAttempts GETs; an error exactly when all
\* maxAttempts GETs failed; the error carries the url and the number of
\* attempts and nothing of the underlying cause.
C10_ErrorCarriesUrl ==
    (f_pc = "called" /\ f_retries >= 0) =>
        /\ Gets <= f_retries
        /\ f_result.raised <=> AllFailed
        /\ f_result.raised =>
              /\ f_result.value.url = f_url
              /\ f_result.value.retries = f_retries
              /\ DOMAIN f_result.value = {"kind", "url", "retries"}

\* All three GETs failed, for different reasons, and the error came back.
C10_Witness ==
    /\ f_pc = "called"
    /\ f_retries = 3
    /\ f_outs[1] = "conn" /\ f_outs[2] = "http" /\ f_outs[3] = "timeout"
    /\ f_result.raised
    /\ Gets = 3

\* ------------------------------------------------------------ discovery
NoTask ==
    \A b \in BookIds :
        bstate[b] = "none" /\ \A i \in ChapterIdx : cstate[b][i] = "none"

\* C11: once discovery has returned zero ids, crawl_api has ended in the
\* "no items found" outcome (404), no crawl_book and no crawl_single task
\* exists, and the catalog GET is the only request of the run.
C11_EmptyDiscovery ==
    (pc \notin {"idle", "discovering"} /\ book_ids = <<>>
        /\ response.kind # "raised") =>
        /\ pc = "done"
        /\ response = [kind |-> "notfound", status |-> 404]
        /\ NoTask
        /\ results = <<>>
        /\ issued = {StoreUrl(page_num)}

\* The catalog page was fetched, held no id, and the run ended with the 404.
C11_Witness ==
    /\ pc = "done"
    /\ response.kind = "notfound"
    /\ book_ids = <<>>
    /\ issued = {StoreUrl(page_num)}

\* ---------------------------------------------------------------- pools

\* C12: at most MAX_WORKERS_BOOKS crawl_book tasks are held by workers at
\* once, at most MAX_WORKERS_CHAPTERS crawl_single tasks of any one book,
\* and so at most the product of the two caps crawl_single tasks in all.
C12_WorkerCaps ==
    /\ Cardinality(BookRunning) <= MAX_WORKERS_BOOKS
    /\ \A b \in BookIds :
          Cardinality(ChapterRunning(b)) <= MAX_WORKERS_CHAPTERS
    /\ Cardinality(InFlightAll) <= MAX_WORKERS_BOOKS * MAX_WORKERS_CHAPTERS

\* More ids than book workers and more chapters than chapter workers: both
\* pools are full and each holds back a queued task.
C12_Witness ==
    /\ Len(book_ids) > MAX_WORKERS_BOOKS
    /\ num_chapters > MAX_WORKERS_CHAPTERS
    /\ Cardinality(BookRunning) = MAX_WORKERS_BOOKS
    /\ \E b \in BookIds : bstate[b] = "queued"
    /\ \E b \in BookIds :
          /\ Cardinality(ChapterRunning(b)) = MAX_WORKERS_CHAPTERS
          /\ \E i \in ChapterIdx : cstate[b][i] = "queued"

\* The catalog fetch of this run exhausted its retries and crawl_api ended
\* with that exception.
CatalogRaised ==
    /\ response.kind = "raised"
    /\ response.error = FetchError(StoreUrl(page_num), DEFAULT_RETRIES)

\* C13: a discovery step whose catalog GETs all fail ends crawl_api with
\* the one exception of safe_get, naming the catalog url; in that step and
\* ever after no crawl_book and no crawl_single task exists and no other
\* request has gone out.
C13_CatalogFailurePropagates ==
    /\ [](CatalogRaised =>
            pc = "done" /\ NoTask /\ issued = {StoreUrl(page_num)})
    /\ [][\A outs \in NetOuts, ids \in SUBSET BookIds :
            (Discover(outs, ids)
                /\ safe_get(StoreUrl(page_num), DEFAULT_RETRIES, outs).raised)
            => (pc' = "done" /\ CatalogRaised')]_vars

\* The catalog fetch failed: the run is over, with the error and no task.
C13_Witness ==
    /\ pc = "done"
    /\ CatalogRaised
    /\ NoTask
    /\ book_ids = <<>>

\* ----------------------------------------------------------- join barrier
Unfinished == {"queued", "running"}

\* C14: a crawl_book task has ended (crawl_first_n_chapters has returned
\* or raised) only when none of its crawl_single tasks is queued or
\* running, and crawl_api has ended only when no crawl_book task is queued
\* or running.
C14_JoinBarrier ==
    /\ \A b \in BookIds :
          bstate[b] \in Finished =>
              \A i \in ChapterIdx : cstate[b][i] \notin Unfinished
    /\ pc = "done" =>
          \A b \in BookIds : bstate[b] \notin ({"queued"} \cup BookActive)

\* Both barriers at work: crawl_api holds back the exception of a failed
\* book while another book is still active, and that book's fan-out holds
\* back the exception of a failed chapter while a sibling chapter runs.
C14_Witness ==
    /\ pc = "joining"
    /\ pending # None
    /\ \E b \in BookIds :
          /\ bstate[b] = "join"
          /\ bpending[b] # None
          /\ \E i \in ChapterIdx : cstate[b][i] = "running"

\* -------------------------------------------------------- no cancellation
\* Every discovered id has had its crawl_book task end, and every book whose
\* metadata fetch succeeded has had the crawl_single tasks of 1..n end.
AllTasksEnded ==
    \A b \in InIds :
        /\ bstate[b] \in Finished
        /\ ~MetaFailed(b) =>
              \A i \in ChapterIdx : i <= num_chapters => cstate[b][i] \in Finished

\* C15: every crawl_book task submitted for a discovered id, and every
\* crawl_single task submitted for a chapter 1..n, ends with a result or
\* an exception of its own, whatever happened to its siblings.
C15_NoCancellation ==
    /\ (pc = "fetching") ~> AllTasksEnded
    /\ [][/\ \A b \in BookIds :
               bstate[b] \in Finished => bstate'[b] = bstate[b]
          /\ \A b \in BookIds, i \in ChapterIdx :
               cstate[b][i] \in Unfinished => cstate'[b][i] # "none"]_vars

\* With one book worker, the first book has failed and crawl_api has
\* picked its exception up, and the second book went on to its report.
C15_Witness ==
    /\ MAX_WORKERS_BOOKS = 1
    /\ Len(book_ids) = 2
    /\ pending # None
    /\ bstate[book_ids[1]] = "exc"
    /\ bstate[book_ids[2]] = "ok"
    /\ Len(bres[book_ids[2]].chapters) = MaxChapters

\* ------------------------------------------------------------ termination
\* C16: every crawl ends, for every number of ids and every chapter count
\* against every setting of the two caps: no task waits for a worker that
\* is never handed back, and crawl_api is never left waiting for a task.
C16_CrawlTerminates == <>(pc = "done")

\* A crawl with more ids than book workers and more chapters than chapter
\* workers has ended with its results.
C16_Witness ==
    /\ pc = "done"
    /\ response.kind = "ok"
    /\ Len(book_ids) > MAX_WORKERS_BOOKS
    /\ num_chapters > MAX_WORKERS_CHAPTERS
    /\ Len(response.results) = Len(book_ids)

\* ---------------------------------------------------------------- C17
\* C17: the accumulators are appended to by their collecting thread only.
\* A chapters list grows only in a turn of the as_completed loop of its own
\* crawl_first_n_chapters, by the result of one finished, not yet drained
\* crawl_single of the same book, in a step that changes no task and no
\* other chapters list; results grows only in a turn of the as_completed
\* loop of crawl_api, by the result of one finished, not yet drained
\* crawl_book, in a step that changes no task and no chapters list; and a
\* step that changes the state or result of a chapter task changes neither
\* accumulator.
C17_SingleAppender ==
    [][/\ \A b \in BookIds :
            chapters'[b] # chapters[b] =>
                /\ bstate[b] \in {"collect", "join"}
                /\ cstate' = cstate /\ cres' = cres /\ results' = results
                /\ \A c \in BookIds \ {b} : chapters'[c] = chapters[c]
                /\ \/ chapters'[b] = <<>>
                   \/ \E i \in Submitted(b) \ cdrained[b] :
                        /\ bstate[b] = "collect"
                        /\ cstate[b][i] = "ok"
                        /\ chapters'[b] = Append(chapters[b], cres[b][i])
                        /\ cdrained'[b] = cdrained[b] \cup {i}
       /\ results' # results =>
                /\ pc = "fetching"
                /\ bstate' = bstate /\ bres' = bres
                /\ cstate' = cstate /\ cres' = cres /\ chapters' = chapters
                /\ \/ results' = <<>>
                   \/ \E b \in InIds \ bdrained :
                        /\ bstate[b] = "ok"
                        /\ results' = Append(results, bres[b])
                        /\ bdrained' = bdrained \cup {b}
       /\ (cstate' # cstate \/ cres' # cres) =>
                (chapters' = chapters /\ results' = results)
      ]_vars

\* Both accumulators hold an entry while a crawl_single of the book that is
\* being collected still runs and a second chapters list is filled too.
C17_Witness ==
    /\ results # <<>>
    /\ \E b \in BookIds :
         /\ chapters[b] # <<>>
         /\ \E i \in ChapterIdx : cstate[b][i] = "running"

\* ---------------------------------------------------------------- C18
\* C18 as stated: in the trace of a call every sleep is followed by a GET,
\* and a call whose maxAttempts >= 1 GETs all fail sleeps exactly
\* maxAttempts - 1 times before it raises the error.
C18_SleepOnlyBetweenAttempts ==
    f_pc = "called" =>
        /\ \A k \in DOMAIN f_result.trace :
              f_result.trace[k] = "sleep" =>
                  /\ k < Len(f_result.trace)
                  /\ f_result.trace[k + 1] = "get"
        /\ (f_retries >= 1 /\ AllFailed) =>
              (f_result.raised /\ Sleeps = f_retries - 1)

\* ---------------------------------------------------------------- C19
\* C19 as stated: a run called with a negative chapter count whose catalog
\* fetch did not fail ends in the "no items found" outcome and returns no
\* item reports.
C19_NegativeCountNotFound ==
    (pc = "done" /\ num_chapters < 0 /\ ~CatalogRaised) =>
        response.kind = "notfound"

\* ---------------------------------------------------------------- C20
\* C20: a call of safe_get with retries <= 0 sends no GET, does not sleep
\* and raises the fetch error for its url; and no call returns a response
\* unless its last step was a GET that the network answered with success.
C20_NoAttemptsRaises ==
    f_pc = "called" =>
        /\ f_retries <= 0 =>
              /\ f_result.raised
              /\ f_result.trace = <<>>
              /\ f_result.value = FetchError(f_url, f_retries)
        /\ ~f_result.raised =>
              /\ Gets >= 1
              /\ f_result.trace[Len(f_result.trace)] = "get"
              /\ f_outs[Gets] = "ok"
              /\ f_result.value = Response(f_url)

\* A call with a negative attempt count against an endpoint that would have
\* answered the first GET has raised.
C20_Witness ==
    /\ f_pc = "called"
    /\ f_retries < 0
    /\ f_outs[1] = "ok"
    /\ f_result.raised
    /\ Gets = 0 /\ Sleeps = 0

====
